---------------------------- MODULE Spec2Model ----------------------------
(***************************************************************************)
(* A model of netstat.py: one run of main(), which builds the process      *)
(* directory (process_names), sorts the sockets psutil.net_connections()   *)
(* returns and prints one row per listening socket, asking rpcinfo         *)
(* (kernel_process_by_port) for the owner of a socket that has no pid.     *)
(* Python strings are TLA+ strings; the Python string operations the       *)
(* program uses are written out below on their characters.                 *)
(***************************************************************************)
EXTENDS Integers, Sequences, FiniteSets, TLC

VARIABLES
    procs,       \* psutil.process_iter(): the visible processes, in order
    docker,      \* the container runtime docker.from_env() talks to
    conns,       \* psutil.net_connections(): the sockets, in enumeration order
    rpcinfo,     \* what running the program "rpcinfo" does
    pc,          \* where main() is
    k,           \* process_names(): index of the next process
    proc_names,  \* process_names(): the dictionary pid -> label built so far
    queue,       \* main(): sorted(...), as indices into conns
    i,           \* main(): index into queue of the next connection
    out,         \* the rows printed after the header, in order
    printed,     \* for each row of out, the index in conns of its socket
    runs,        \* for each subprocess.run(["rpcinfo"]), the index in conns of the socket it was made for
    exc          \* the exception that ended the run, or NoExc

vars == <<procs, docker, conns, rpcinfo, pc, k, proc_names, queue, i, out, printed, runs, exc>>

-----------------------------------------------------------------------------
(* Bounds of the model. *)

MaxConns == 3
MaxLines == 3
MaxProcs == 2

-----------------------------------------------------------------------------
(* Python strings. *)

Char(s, n) == SubSeq(s, n, n)

\* The characters the model's strings are made of, in code point order.
CodePoints == " -./0123456789:?ABCDEFGHIJKLMNOPQRSTUVWXYZ_abcdefghijklmnopqrstuvwxyz"

\* The rank of a one-character string in code point order (ord(c) up to a
\* monotone renumbering, which is all a comparison reads).
Ord(c) == CHOOSE n \in 1..Len(CodePoints) : Char(CodePoints, n) = c

Least(S) == CHOOSE n \in S : \A m \in S : n <= m
Greatest(S) == CHOOSE n \in S : \A m \in S : m <= n

\* Python str a < b: by code point at the first position where they differ;
\* a proper prefix is smaller.
StrLess(a, b) ==
    LET shorter == IF Len(a) < Len(b) THEN Len(a) ELSE Len(b)
        differ == {n \in 1..shorter : Char(a, n) # Char(b, n)}
    IN  IF differ = {} THEN Len(a) < Len(b)
        ELSE Ord(Char(a, Least(differ))) < Ord(Char(b, Least(differ)))

\* str.startswith
startswith(s, prefix) ==
    Len(s) >= Len(prefix) /\ SubSeq(s, 1, Len(prefix)) = prefix

\* str.rfind(c, 0, n) + 1, 1-based: the position of the last c among the
\* first n characters of s, 0 when there is none.
LastIndex(s, c, n) ==
    LET at == {m \in 1..n : Char(s, m) = c}
    IN  IF at = {} THEN 0 ELSE Greatest(at)

\* os.path.basename (posixpath): what follows the last "/".
basename(p) == SubSeq(p, LastIndex(p, "/", Len(p)) + 1, Len(p))

Digits == "0123456789"
IsDigit(c) == \E n \in 1..10 : Char(Digits, n) = c
DigitValue(c) == (CHOOSE n \in 1..10 : Char(Digits, n) = c) - 1

\* int(s) of a non-empty string of decimal digits.
RECURSIVE int(_)
int(s) ==
    IF Len(s) = 1 THEN DigitValue(s)
    ELSE 10 * int(SubSeq(s, 1, Len(s) - 1)) + DigitValue(Char(s, Len(s)))

\* str(n) of a natural number.
RECURSIVE str(_)
str(n) ==
    IF n < 10 THEN Char(Digits, n + 1)
    ELSE str(n \div 10) \o Char(Digits, (n % 10) + 1)

\* str.splitlines() of text whose only line boundary is "\n": a final "\n"
\* starts no further line.
RECURSIVE SplitFrom(_, _)
SplitFrom(s, from) ==
    LET ends == {n \in from..Len(s) : Char(s, n) = "\n"}
    IN  IF from > Len(s) THEN <<>>
        ELSE IF ends = {} THEN <<SubSeq(s, from, Len(s))>>
        ELSE <<SubSeq(s, from, Least(ends) - 1)>> \o SplitFrom(s, Least(ends) + 1)

splitlines(s) == SplitFrom(s, 1)

-----------------------------------------------------------------------------
(* The pattern kernel_process_by_port compiles, matched as re.match does:   *)
(* from the start of the line, the line's tail left unread.                 *)
(*   \s+(?:\d+)\s+(?:\d)\s+(\w+)\s+([.:0-9]+)\.(\d+)\.(\d+)\s+(\w+)\s+(?:\w+) *)

SpaceChars == " \t"
WordChars == "0123456789ABCDEFGHIJKLMNOPQRSTUVWXYZ_abcdefghijklmnopqrstuvwxyz"
AddrChars == ".:0123456789"

InClass(c, class) == \E n \in 1..Len(class) : Char(class, n) = c

\* The first position from `from` on whose character is not in `class`
\* (Len(s) + 1 when there is none): where a greedy class+ stops.
Span(s, from, class) ==
    Least({n \in from..(Len(s) + 1) : n = Len(s) + 1 \/ ~InClass(Char(s, n), class)})

AllDigits(s) == Len(s) >= 1 /\ \A n \in 1..Len(s) : IsDigit(Char(s, n))

NoMatch == <<>>

\* ([.:0-9]+)\.(\d+)\.(\d+) on the run t of address characters, which the
\* following \s+ forces the three groups to fill: the last two "."  split it.
AddrGroups(t) ==
    LET d2 == LastIndex(t, ".", Len(t))
        d1 == LastIndex(t, ".", d2 - 1)
    IN  IF d2 = 0 \/ d1 <= 1 THEN NoMatch
        ELSE IF ~AllDigits(SubSeq(t, d1 + 1, d2 - 1)) THEN NoMatch
        ELSE IF ~AllDigits(SubSeq(t, d2 + 1, Len(t))) THEN NoMatch
        ELSE <<SubSeq(t, 1, d1 - 1), SubSeq(t, d1 + 1, d2 - 1), SubSeq(t, d2 + 1, Len(t))>>

\* regex.match(line): NoMatch, or the five groups. Each class+ is followed
\* by a character outside its class, so each takes its whole run.
RegexMatch(line) ==
    LET a1 == Span(line, 1, SpaceChars)      \* \s+
        a2 == Span(line, a1, Digits)         \* (?:\d+)
        a3 == Span(line, a2, SpaceChars)     \* \s+
        a4 == a3 + 1                         \* (?:\d)
        a5 == Span(line, a4, SpaceChars)     \* \s+
        a6 == Span(line, a5, WordChars)      \* (\w+)
        a7 == Span(line, a6, SpaceChars)     \* \s+
        a8 == Span(line, a7, AddrChars)      \* ([.:0-9]+)\.(\d+)\.(\d+)
        a9 == Span(line, a8, SpaceChars)     \* \s+
        a10 == Span(line, a9, WordChars)     \* (\w+)
        a11 == Span(line, a10, SpaceChars)   \* \s+
        a12 == Span(line, a11, WordChars)    \* (?:\w+)
    IN  IF a1 = 1 \/ a2 = a1 \/ a3 = a2 THEN NoMatch
        ELSE IF a3 > Len(line) \/ ~IsDigit(Char(line, a3)) \/ a5 = a4 THEN NoMatch
        ELSE IF a6 = a5 \/ a7 = a6 \/ a8 = a7 \/ a9 = a8 THEN NoMatch
        ELSE IF a10 = a9 \/ a11 = a10 \/ a12 = a11 THEN NoMatch
        ELSE LET g == AddrGroups(SubSeq(line, a7, a8 - 1))
             IN  IF g = NoMatch THEN NoMatch
                 ELSE <<SubSeq(line, a5, a6 - 1), g[1], g[2], g[3], SubSeq(line, a9, a10 - 1)>>

-----------------------------------------------------------------------------
(* Values and exceptions. *)

\* Python's None, as the pid of a socket no process owns.
None == -1

\* bool(pid): None and 0 are false.
Truthy(pid) == pid # None /\ pid # 0

NoExc == [type |-> "", at |-> ""]
Raise(type, at) == [type |-> type, at |-> at]

\* What a call does: returns `value`, or raises `raised`.
Return(value) == [raised |-> NoExc, value |-> value]
Raised(type, at) == [raised |-> Raise(type, at), value |-> ""]

-----------------------------------------------------------------------------
(* kernel_process_by_port *)

\* subprocess.run(["rpcinfo"], stdout=PIPE, check=True)
SubprocessRun(tool) ==
    IF ~tool.installed THEN Raised("FileNotFoundError", "subprocess.run")
    ELSE IF tool.returncode # 0 THEN Raised("CalledProcessError", "subprocess.run")
    ELSE Return(tool.stdout)

\* lines[:-1]
DropLast(lines) == SubSeq(lines, 1, Len(lines) - 1)

\* The (protocol, "ip:port", service) triple of a match.
Triple(m) == <<m[1], m[2] \o ":" \o str(256 * int(m[3]) + int(m[4])), m[5]>>

\* The list `processes`: the triples of the lines that match, in order.
RECURSIVE Registrations(_)
Registrations(lines) ==
    IF lines = <<>> THEN <<>>
    ELSE LET m == RegexMatch(Head(lines))
         IN  (IF m = NoMatch THEN <<>> ELSE <<Triple(m)>>) \o Registrations(Tail(lines))

\* The loop over `processes`: the first item for (proto, address), or "?".
RECURSIVE FirstMatch(_, _, _)
FirstMatch(processes, proto, address) ==
    IF processes = <<>> THEN "?"
    ELSE IF Head(processes)[1] = proto /\ Head(processes)[2] = address
         THEN "rpc." \o Head(processes)[3]
    ELSE FirstMatch(Tail(processes), proto, address)

\* The lines of the output the lookup list is built from.
RpcLines(stdout) == DropLast(splitlines(stdout))

kernel_process_by_port(tool, proto, address) ==
    LET run == SubprocessRun(tool)
    IN  IF run.raised.type = "FileNotFoundError" THEN Return("?")
        ELSE IF run.raised # NoExc THEN Raised(run.raised.type, "kernel_process_by_port")
        ELSE Return(FirstMatch(Registrations(RpcLines(run.value)), proto, address))

-----------------------------------------------------------------------------
(* docker_container_by_ip and process_names *)

\* name_by_ip[ip_address]: the dict comprehension keeps, for an address, the
\* last container that lists it.
RECURSIVE NameByIp(_, _, _)
NameByIp(containers, ip, n) ==
    IF n = 0 THEN Raised("KeyError", "docker_container_by_ip")
    ELSE IF \E a \in 1..Len(containers[n].addresses) : containers[n].addresses[a] = ip
         THEN Return(containers[n].name)
    ELSE NameByIp(containers, ip, n - 1)

docker_container_by_ip(runtime, ip_address) ==
    IF ~runtime.reachable THEN Return("?")      \* containers.list() raises IOError
    ELSE NameByIp(runtime.containers, ip_address, Len(runtime.containers))

\* list.index(x), 1-based: the first position of x, 0 when x is not in the list.
IndexOf(list, x) ==
    IF \E n \in 1..Len(list) : list[n] = x
    THEN CHOOSE n \in 1..Len(list) : list[n] = x /\ \A m \in 1..(n - 1) : list[m] # x
    ELSE 0

\* The label one iteration of process_names gives process proc.
ProcessLabel(proc, runtime) ==
    IF startswith(proc.name, "python")
    THEN IF Len(proc.cmdline) < 2 THEN Raised("IndexError", "process_names")
         ELSE Return(proc.name \o " " \o basename(proc.cmdline[2]))
    ELSE IF proc.name = "docker-proxy"
    THEN LET at == IndexOf(proc.cmdline, "-container-ip")
         IN  IF at = 0 THEN Raised("ValueError", "process_names")
             ELSE IF at + 1 > Len(proc.cmdline) THEN Raised("IndexError", "process_names")
             ELSE LET name == docker_container_by_ip(runtime, proc.cmdline[at + 1])
                  IN  IF name.raised # NoExc THEN name
                      ELSE Return(proc.name \o " " \o name.value)
    ELSE Return(proc.name)

-----------------------------------------------------------------------------
(* main *)

PROTO_MAP ==
    (<<"AF_INET", "SOCK_STREAM">> :> "tcp") @@ (<<"AF_INET6", "SOCK_STREAM">> :> "tcp6") @@
    (<<"AF_INET", "SOCK_DGRAM">> :> "udp") @@ (<<"AF_INET6", "SOCK_DGRAM">> :> "udp6")

\* _sort(connection): proc_names.get(connection.pid, "?")
SortKey(names, connection) ==
    IF connection.pid \in DOMAIN names THEN names[connection.pid] ELSE "?"

\* sorted(..., key=_sort) is stable: an element goes after the elements
\* whose key is not greater than its own. The list is held as indices.
RECURSIVE InsertSorted(_, _, _, _)
InsertSorted(sorted, n, list, names) ==
    IF sorted = <<>> THEN <<n>>
    ELSE IF StrLess(SortKey(names, list[n]), SortKey(names, list[Head(sorted)]))
         THEN <<n>> \o sorted
    ELSE <<Head(sorted)>> \o InsertSorted(Tail(sorted), n, list, names)

RECURSIVE SortedUpTo(_, _, _)
SortedUpTo(list, names, n) ==
    IF n = 0 THEN <<>>
    ELSE InsertSorted(SortedUpTo(list, names, n - 1), n, list, names)

Sorted(list, names) == SortedUpTo(list, names, Len(list))

\* Reported with the filter letting connected sockets through.
ReportedAnyStatus(connection) == connection.status \in {"LISTEN", "NONE", "ESTABLISHED"}

\* connection.status not in ["LISTEN", "NONE"] is false
Reported(connection) == connection.status \in {"LISTEN", "NONE"}

\* Owner with the test of connection.pid dropped: every socket is looked up
\* in rpcinfo.
OwnerAlwaysKernel(connection, proto, names, tool) ==
    [asked |-> TRUE,
     result |-> kernel_process_by_port(tool, proto,
                    connection.laddr[1] \o ":" \o str(connection.laddr[2]))]

\* The owner of a reported connection, lines 106 to 110: what the
\* expression gives, and whether it called kernel_process_by_port.
Owner(connection, proto, names, tool) ==
    IF Truthy(connection.pid)
    THEN [asked |-> FALSE,
          result |-> IF connection.pid \in DOMAIN names THEN Return(names[connection.pid])
                     ELSE Raised("KeyError", "proc_names")]
    ELSE [asked |-> TRUE,
          result |-> kernel_process_by_port(tool, proto,
                         connection.laddr[1] \o ":" \o str(connection.laddr[2]))]

\* The values the template is filled with, line 111.
Row(connection, proto, proc) ==
    [proto |-> proto, addr |-> connection.laddr[1], port |-> str(connection.laddr[2]),
     pid |-> IF Truthy(connection.pid) THEN str(connection.pid) ELSE "-", proc |-> proc]

-----------------------------------------------------------------------------
(* The run of main(). *)

\* Lines 91 to 94: the header is printed and process_names() is entered.
Start ==
    /\ pc = "start"
    /\ pc' = "process_names"
    /\ k' = 1
    /\ UNCHANGED <<procs, docker, conns, rpcinfo, proc_names, queue, i, out, printed, runs, exc>>

\* Lines 76 to 85: one iteration of the loop of process_names().
ProcessNamesStep ==
    /\ pc = "process_names"
    /\ k <= Len(procs)
    /\ LET label == ProcessLabel(procs[k], docker)
       IN  IF label.raised # NoExc
           THEN /\ pc' = "raised"
                /\ exc' = label.raised
                /\ UNCHANGED <<k, proc_names>>
           ELSE /\ proc_names' = (procs[k].pid :> label.value) @@ proc_names
                /\ k' = k + 1
                /\ UNCHANGED <<pc, exc>>
    /\ UNCHANGED <<procs, docker, conns, rpcinfo, queue, i, out, printed, runs>>

\* Lines 86 and 99: process_names() returns and the connections are sorted.
Sort ==
    /\ pc = "process_names"
    /\ k > Len(procs)
    /\ queue' = Sorted(conns, proc_names)
    /\ i' = 1
    /\ pc' = "loop"
    /\ UNCHANGED <<procs, docker, conns, rpcinfo, k, proc_names, out, printed, runs, exc>>

\* Lines 100 to 111: one iteration of the loop of main().
Iterate ==
    /\ pc = "loop"
    /\ i <= Len(queue)
    /\ LET connection == conns[queue[i]]
           key == <<connection.family, connection.type>>
       IN  IF ~Reported(connection)
           THEN /\ i' = i + 1
                /\ UNCHANGED <<pc, out, printed, runs, exc>>
           ELSE IF key \notin DOMAIN PROTO_MAP
           THEN /\ pc' = "raised"
                /\ exc' = Raise("KeyError", "PROTO_MAP")
                /\ UNCHANGED <<i, out, printed, runs>>
           ELSE LET proto == PROTO_MAP[key]
                    proc == Owner(connection, proto, proc_names, rpcinfo)
                IN  /\ runs' = IF proc.asked THEN Append(runs, queue[i]) ELSE runs
                    /\ IF proc.result.raised # NoExc
                       THEN /\ pc' = "raised"
                            /\ exc' = proc.result.raised
                            /\ UNCHANGED <<i, out, printed>>
                       ELSE /\ out' = Append(out, Row(connection, proto, proc.result.value))
                            /\ printed' = Append(printed, queue[i])
                            /\ i' = i + 1
                            /\ UNCHANGED <<pc, exc>>
    /\ UNCHANGED <<procs, docker, conns, rpcinfo, k, proc_names, queue>>

\* The loop of main() is over and main() returns.
Finish ==
    /\ pc = "loop"
    /\ i > Len(queue)
    /\ pc' = "done"
    /\ UNCHANGED <<procs, docker, conns, rpcinfo, k, proc_names, queue, i, out, printed, runs, exc>>

Next == Start \/ ProcessNamesStep \/ Sort \/ Iterate \/ Finish

\* The state main() starts in, whatever the host looks like.
Begin ==
    /\ pc = "start"
    /\ k = 0
    /\ proc_names = <<>>
    /\ queue = <<>>
    /\ i = 0
    /\ out = <<>>
    /\ printed = <<>>
    /\ runs = <<>>
    /\ exc = NoExc

-----------------------------------------------------------------------------
(* The hosts main() is run on. *)

SeqsUpTo(S, n) == UNION {[1..m -> S] : m \in 0..n}

Process(pid, name, cmdline) == [pid |-> pid, name |-> name, cmdline |-> cmdline]

Socket(family, type, addr, port, status, pid) ==
    [family |-> family, type |-> type, laddr |-> <<addr, port>>, status |-> status, pid |-> pid]

Container(name, addresses) == [name |-> name, addresses |-> addresses]

Tool(installed, returncode, stdout) ==
    [installed |-> installed, returncode |-> returncode, stdout |-> stdout]

Sshd == Process(10, "sshd", <<"/usr/sbin/sshd", "-D">>)
Python3 == Process(20, "python3", <<"python3", "/opt/app/server.py">>)
PythonBare == Process(21, "python3", <<"python3">>)
PythonZombie == Process(22, "python", <<>>)
Pytest == Process(23, "python3.11", <<"python3.11", "run.py", "-v">>)
ProxyWeb == Process(40, "docker-proxy",
    <<"/usr/bin/docker-proxy", "-proto", "tcp", "-container-ip", "172.17.0.5", "-container-port", "80">>)
ProxyGone == Process(41, "docker-proxy",
    <<"/usr/bin/docker-proxy", "-container-ip", "172.17.0.9">>)

Web == Container("web", <<"172.17.0.5">>)
Db == Container("db", <<"172.17.0.6", "10.0.0.6">>)

Unreachable == [reachable |-> FALSE, containers |-> <<>>]
Runtime(containers) == [reachable |-> TRUE, containers |-> containers]

RpcHeader == "   program version netid     address                service    owner"
RpcUdp111 == "    100000    2    udp       0.0.0.0.0.111          portmapper superuser"
RpcUdp111b == "    100024    1    udp       0.0.0.0.0.111          status     29"
RpcTcp2049 == "    100003    4    tcp       0.0.0.0.8.1            nfs        superuser"
RpcLocal == "    100000    3    local     /run/rpcbind.sock      portmapper superuser"

\* The output of rpcinfo: each line ends with a newline.
RECURSIVE Text(_)
Text(lines) == IF lines = <<>> THEN "" ELSE Head(lines) \o "\n" \o Text(Tail(lines))

KernelUdp111 == Socket("AF_INET", "SOCK_DGRAM", "0.0.0.0", 111, "NONE", None)
KernelTcp2049 == Socket("AF_INET", "SOCK_STREAM", "0.0.0.0", 2049, "LISTEN", None)

\* Sockets of every kind main() tells apart: owned by a listed process, by
\* the kernel, by a process that is not listed; connected; of another family.
SocketPool ==
    { Socket("AF_INET", "SOCK_STREAM", "0.0.0.0", 22, "LISTEN", 10),
      Socket("AF_INET6", "SOCK_STREAM", "::", 8080, "LISTEN", 20),
      KernelUdp111,
      KernelTcp2049,
      Socket("AF_INET", "SOCK_STREAM", "10.0.0.1", 22, "ESTABLISHED", 10),
      Socket("AF_INET6", "SOCK_DGRAM", "::", 5353, "NONE", 30),
      Socket("AF_UNIX", "SOCK_STREAM", "", 0, "LISTEN", 10) }

\* Hosts that differ in their sockets.
Init ==
    /\ Begin
    /\ procs = <<Sshd, Python3>>
    /\ docker = Runtime(<<Web>>)
    /\ conns \in SeqsUpTo(SocketPool, MaxConns)
    /\ rpcinfo \in { Tool(TRUE, 0, Text(<<RpcHeader, RpcUdp111, RpcTcp2049, RpcLocal>>)),
                     Tool(TRUE, 1, "rpcinfo: can't contact rpcbind"),
                     Tool(FALSE, 0, "") }

Spec == Init /\ [][Next]_vars

\* Hosts that differ in what rpcinfo prints.
RpcLinePool == {RpcHeader, RpcUdp111, RpcUdp111b, RpcTcp2049, RpcLocal}

InitRpc ==
    /\ Begin
    /\ procs = <<Sshd>>
    /\ docker = Unreachable
    /\ conns \in {<<KernelUdp111>>, <<KernelTcp2049>>, <<KernelTcp2049, KernelUdp111>>}
    /\ \/ rpcinfo \in {Tool(TRUE, 0, Text(lines)) : lines \in SeqsUpTo(RpcLinePool, MaxLines)}
       \/ rpcinfo \in {Tool(TRUE, 1, ""), Tool(FALSE, 0, "")}

SpecRpc == InitRpc /\ [][Next]_vars

\* Hosts that differ in their processes and containers.
ProcessPool == {Sshd, Python3, PythonBare, PythonZombie, Pytest, ProxyWeb, ProxyGone}

InitProc ==
    /\ Begin
    /\ procs \in {t \in SeqsUpTo(ProcessPool, MaxProcs) :
                     \A a, b \in 1..Len(t) : a # b => t[a].pid # t[b].pid}
    /\ docker \in {Unreachable, Runtime(<<>>), Runtime(<<Web>>), Runtime(<<Db, Web>>)}
    /\ conns = << Socket("AF_INET", "SOCK_STREAM", "0.0.0.0", 22, "LISTEN", 10),
                  Socket("AF_INET", "SOCK_STREAM", "0.0.0.0", 8080, "LISTEN", 40) >>
    /\ rpcinfo = Tool(FALSE, 0, "")

SpecProc == InitProc /\ [][Next]_vars

-----------------------------------------------------------------------------
(* The properties. *)

\* The socket row r was printed for.
RowSocket(r) == conns[printed[r]]

\* The query main() makes for a socket the kernel owns.
QueryAddress(connection) == connection.laddr[1] \o ":" \o str(connection.laddr[2])

Range(f) == {f[n] : n \in DOMAIN f}

\* C1: no row is printed for a socket whose status is other than LISTEN or
\* NONE, and when main() has completed each socket whose status is LISTEN
\* or NONE has exactly one row.
C1_OnlyListeningReported ==
    /\ \A r \in 1..Len(printed) : RowSocket(r).status \in {"LISTEN", "NONE"}
    /\ \A n \in 1..Len(conns) : Cardinality({r \in 1..Len(printed) : printed[r] = n}) <= 1
    /\ pc = "done" =>
          \A n \in 1..Len(conns) :
              conns[n].status \in {"LISTEN", "NONE"} => \E r \in 1..Len(printed) : printed[r] = n

\* A completed run over a connected socket and a listening one, with a row.
C1_Witness ==
    /\ pc = "done"
    /\ \E n \in 1..Len(conns) : conns[n].status = "ESTABLISHED"
    /\ \E n \in 1..Len(conns) : conns[n].status = "NONE"
    /\ \E n \in 1..Len(conns) : conns[n].status = "LISTEN"
    /\ Len(out) = 2

\* C2: a row of a socket whose pid is non-zero and a key of the process
\* directory carries the directory's label for that pid, and rpcinfo is
\* never run for such a socket.
C2_DirectoryLabel ==
    /\ \A r \in 1..Len(out) :
          (Truthy(RowSocket(r).pid) /\ RowSocket(r).pid \in DOMAIN proc_names)
              => out[r].proc = proc_names[RowSocket(r).pid]
    /\ \A n \in Range(runs) :
          ~(Truthy(conns[n].pid) /\ conns[n].pid \in DOMAIN proc_names)

\* A row labelled from the directory, printed after rpcinfo was run for
\* another socket.
C2_Witness ==
    /\ runs # <<>>
    /\ \E r \in 1..Len(out) :
          /\ Truthy(RowSocket(r).pid)
          /\ RowSocket(r).pid \in DOMAIN proc_names
          /\ out[r].proc = "python3 server.py"
          /\ \E q \in 1..Len(runs) : runs[q] # printed[r]

\* C3: a listening socket whose pid is not a key of the process directory
\* does not end the run: its row is printed with owner "?".
C3_MissingPidTolerated ==
    /\ exc.at # "proc_names"
    /\ \A r \in 1..Len(out) :
          (Truthy(RowSocket(r).pid) /\ RowSocket(r).pid \notin DOMAIN proc_names)
              => out[r].proc = "?"

\* The rpcinfo processes spawned so far: subprocess.run spawns one each time
\* it is called with the tool installed.
Spawned == IF rpcinfo.installed THEN Len(runs) ELSE 0

\* C4: rpcinfo is run at most once in a run of main(), and not at all when
\* no reported socket is owned by the kernel.
C4_RpcinfoRunOnce ==
    /\ Spawned <= 1
    /\ (\A n \in 1..Len(conns) :
           conns[n].status \in {"LISTEN", "NONE"} => Truthy(conns[n].pid)) => runs = <<>>

\* C5: the rows are in non-decreasing order of the owner label printed in
\* them, rows of equal label in the order of their sockets in the enumeration.
C5_SortedByPrintedLabel ==
    \A r, t \in 1..Len(out) :
        r < t => /\ ~StrLess(out[t].proc, out[r].proc)
                 /\ out[r].proc = out[t].proc => printed[r] < printed[t]

\* C6: the label of a kernel-owned socket is "rpc." and the service of the
\* first line, among all the lines of the output that match the pattern,
\* that registers its protocol and address, and "?" when no line does.
C6_LookupOverAllLines ==
    \A r \in 1..Len(out) :
        (~Truthy(RowSocket(r).pid) /\ rpcinfo.installed)
            => out[r].proc = FirstMatch(Registrations(splitlines(rpcinfo.stdout)),
                                        out[r].proto, QueryAddress(RowSocket(r)))

\* C7: kernel_process_by_port raises nothing, whatever running rpcinfo
\* does, and answers "?" when the tool gave no registration.
C7_ResolverNeverRaises ==
    /\ exc.at # "kernel_process_by_port"
    /\ \A r \in 1..Len(out) :
          (~Truthy(RowSocket(r).pid) /\ (~rpcinfo.installed \/ rpcinfo.returncode # 0))
              => out[r].proc = "?"

\* The processes process_names() has gone through.
Visited == {n \in 1..Len(procs) : n < k}

\* C8: a process whose name begins with "python" is labelled with its name,
\* a space and the base name of its first argument, and with its name alone
\* when it has no first argument, which raises nothing.
C8_PythonLabel ==
    /\ \A n \in Visited :
          startswith(procs[n].name, "python") =>
              proc_names[procs[n].pid] =
                  IF Len(procs[n].cmdline) >= 2
                  THEN procs[n].name \o " " \o basename(procs[n].cmdline[2])
                  ELSE procs[n].name
    /\ ~(pc = "raised" /\ exc.at = "process_names" /\ startswith(procs[k].name, "python"))

\* The containers of the runtime that have address ip.
Holders(ip) ==
    {c \in 1..Len(docker.containers) : ip \in Range(docker.containers[c].addresses)}

\* C9: a docker-proxy process is labelled with the name of a container that
\* has its -container-ip, and "docker-proxy ?" when the runtime is
\* unreachable or no container has it, which raises nothing.
C9_ProxyLabel ==
    /\ exc.at # "docker_container_by_ip"
    /\ \A n \in Visited :
          procs[n].name = "docker-proxy" =>
              LET ip == procs[n].cmdline[IndexOf(procs[n].cmdline, "-container-ip") + 1]
              IN  IF docker.reachable /\ Holders(ip) # {}
                  THEN \E c \in Holders(ip) :
                          proc_names[procs[n].pid] = "docker-proxy " \o docker.containers[c].name
                  ELSE proc_names[procs[n].pid] = "docker-proxy ?"

=============================================================================
